---- MODULE Spec2Model ----
(***************************************************************************)
(* Model of drivers/gpu/drm/panel/panel-simple.c: the simple-panel driver  *)
(* with its MIPI-DSI front end (probe / remove / shutdown) and the panel   *)
(* function set (enable / disable).  Every handler is one atomic action;   *)
(* the calls it makes to the regulator, GPIO, backlight, I2C, DRM panel    *)
(* and DSI host layers are recorded in `trace` in program order and        *)
(* applied to the collaborator state `res`.  SpecContexts runs the same     *)
(* handlers one statement at a time from two calling contexts.             *)
(***************************************************************************)
EXTENDS Integers, Sequences, FiniteSets, TLC

VARIABLES
    cfg,             \* the device-tree node of the panel (fixed per behaviour)
    backlightReady,  \* of_find_backlight_by_node() would find the device
    ddcReady,        \* of_find_i2c_adapter_by_node() would find the adapter
    bound,           \* the driver is bound: probe returned 0, remove not yet run
    panel,           \* struct panel_simple (NoPanel while none is allocated)
    dsi,             \* the fields of struct mipi_dsi_device the driver writes
    res,             \* collaborator state: reference counts and levels
    probeKept,       \* the latest probe's calls, its command list left out
    trace,           \* the calls issued by the latest handler, in program order
    lastOp,          \* name of the latest handler
    pre,             \* struct panel_simple as the latest handler found it
    ret,             \* return value of the latest handler
    prevRet,         \* return value of the probe before the latest one
    nProbes,         \* probe calls so far
    running,         \* per calling context: the entry point it is inside
    mutex            \* the context the host pipeline lets call the panel

vars == <<cfg, backlightReady, ddcReady, bound, panel, dsi, res,
          probeKept, trace, lastOp, pre, ret, prevRet, nProbes,
          running, mutex>>

----------------------------------------------------------------------------
(* Bounds of the exploration *)

MaxProbes == 2   \* probe attempts explored
MaxSupply == 2   \* regulator enable count up to which enable is explored
MaxEdidModes == 3  \* modes an EDID blob may yield

----------------------------------------------------------------------------
(* Constants of the program *)

GPIO_ACTIVE_LOW == 1
OF_GPIO_ACTIVE_LOW == 1
FB_BLANK_UNBLANK == 0
FB_BLANK_POWERDOWN == 4
ENOMEM == 12
ENODEV == 19
EPROBE_DEFER == 517

\* error codes a collaborator call may return
CollabErrs == {-5}

gpio_is_valid(g) == g >= 0

----------------------------------------------------------------------------
(* Panel descriptors *)

sc20_ili9881c ==
    [desc   |-> [num_modes |-> 1, size |-> [width |-> 59, height |-> 104]],
     flags  |-> {"MIPI_DSI_MODE_VIDEO", "MIPI_DSI_MODE_VIDEO_HSE",
                 "MIPI_DSI_CLOCK_NON_CONTINUOUS"},
     format |-> "MIPI_DSI_FMT_RGB888",
     lanes  |-> 4]

lg_lh500wx1_sd03 ==
    [desc   |-> [num_modes |-> 1, size |-> [width |-> 62, height |-> 110]],
     flags  |-> {"MIPI_DSI_MODE_VIDEO"},
     format |-> "MIPI_DSI_FMT_RGB888",
     lanes  |-> 4]

panasonic_vvx10f004b00 ==
    [desc   |-> [num_modes |-> 1, size |-> [width |-> 217, height |-> 136]],
     flags  |-> {"MIPI_DSI_MODE_VIDEO", "MIPI_DSI_MODE_VIDEO_SYNC_PULSE"},
     format |-> "MIPI_DSI_FMT_RGB888",
     lanes  |-> 4]

\* lines 485-498: the rows of the table before the sentinel
dsi_of_match_table ==
    << [compatible |-> "sc20,ili9881c",          data |-> sc20_ili9881c],
       [compatible |-> "lg,lh500wx1-sd03",       data |-> lg_lh500wx1_sd03],
       [compatible |-> "panasonic,vvx10f004b00", data |-> panasonic_vvx10f004b00] >>

\* the rows of the table whose compatible string is c
MatchingRows(c) ==
    {i \in 1..Len(dsi_of_match_table) : dsi_of_match_table[i].compatible = c}

\* the table as of_match_node reads it: the data of the first matching row
dsi_of_match ==
    [c \in {dsi_of_match_table[i].compatible :
                i \in 1..Len(dsi_of_match_table)} |->
        dsi_of_match_table[CHOOSE i \in MatchingRows(c) :
                               \A j \in MatchingRows(c) : i <= j].data]

\* of_match_node(dsi_of_match, node): TRUE when an entry matches
of_match_node(compatible) == compatible \in DOMAIN dsi_of_match

----------------------------------------------------------------------------
(* The display-on command list of panel_simple_dsi_probe.  W(cmd, data, len) *)
(* is one mipi_dsi_dcs_write(dsi, cmd, data, len) statement: data is the     *)
(* array literal of the call, len its last argument.                         *)

W(cmd, data, len) == [cmd |-> cmd, data |-> data, len |-> len]

InitScript ==
    <<
       W(255, <<152, 129, 3>>, 1), W(1, <<0>>, 1), W(2, <<0>>, 1), W(3, <<115>>, 1),
       W(4, <<3>>, 1), W(5, <<0>>, 1), W(6, <<6>>, 1), W(7, <<6>>, 1),
       W(8, <<0>>, 1), W(9, <<24>>, 1), W(10, <<4>>, 1), W(11, <<0>>, 1),
       W(12, <<2>>, 1), W(13, <<3>>, 1), W(14, <<0>>, 1), W(15, <<37>>, 1),
       W(16, <<37>>, 1), W(17, <<0>>, 1), W(18, <<0>>, 1), W(19, <<0>>, 1),
       W(20, <<0>>, 1), W(21, <<0>>, 1), W(22, <<12>>, 1), W(23, <<0>>, 1),
       W(24, <<0>>, 1), W(25, <<0>>, 1), W(26, <<0>>, 1), W(27, <<0>>, 1),
       W(28, <<0>>, 1), W(29, <<0>>, 1), W(30, <<192>>, 1), W(31, <<128>>, 1),
       W(32, <<4>>, 1), W(33, <<1>>, 1), W(34, <<0>>, 1), W(35, <<0>>, 1),
       W(36, <<0>>, 1), W(37, <<0>>, 1), W(38, <<0>>, 1), W(39, <<0>>, 1),
       W(40, <<51>>, 1), W(41, <<3>>, 1), W(42, <<0>>, 1), W(43, <<0>>, 1),
       W(44, <<0>>, 1), W(45, <<0>>, 1), W(46, <<0>>, 1), W(47, <<0>>, 1),
       W(48, <<0>>, 1), W(49, <<0>>, 1), W(50, <<0>>, 1), W(51, <<0>>, 1),
       W(52, <<4>>, 1), W(53, <<0>>, 1), W(54, <<0>>, 1), W(55, <<0>>, 1),
       W(56, <<60>>, 1), W(57, <<0>>, 1), W(58, <<0>>, 1), W(59, <<0>>, 1),
       W(60, <<0>>, 1), W(61, <<0>>, 1), W(62, <<0>>, 1), W(63, <<0>>, 1),
       W(64, <<0>>, 1), W(65, <<0>>, 1), W(66, <<0>>, 1), W(67, <<0>>, 1),
       W(68, <<0>>, 1), W(80, <<1>>, 1), W(81, <<35>>, 1), W(82, <<69>>, 1),
       W(83, <<103>>, 1), W(84, <<137>>, 1), W(85, <<171>>, 1), W(86, <<1>>, 1),
       W(87, <<35>>, 1), W(88, <<69>>, 1), W(89, <<103>>, 1), W(90, <<137>>, 1),
       W(91, <<171>>, 1), W(92, <<205>>, 1), W(93, <<239>>, 1), W(94, <<17>>, 1),
       W(95, <<2>>, 1), W(96, <<2>>, 1), W(97, <<2>>, 1), W(98, <<2>>, 1),
       W(99, <<2>>, 1), W(100, <<2>>, 1), W(101, <<2>>, 1), W(102, <<2>>, 1),
       W(103, <<2>>, 1), W(104, <<2>>, 1), W(105, <<2>>, 1), W(106, <<12>>, 1),
       W(107, <<2>>, 1), W(108, <<15>>, 1), W(109, <<14>>, 1), W(110, <<13>>, 1),
       W(111, <<6>>, 1), W(112, <<7>>, 1), W(113, <<2>>, 1), W(114, <<2>>, 1),
       W(115, <<2>>, 1), W(116, <<2>>, 1), W(117, <<2>>, 1), W(118, <<2>>, 1),
       W(119, <<2>>, 1), W(120, <<2>>, 1), W(121, <<2>>, 1), W(122, <<2>>, 1),
       W(123, <<2>>, 1), W(124, <<2>>, 1), W(125, <<2>>, 1), W(126, <<2>>, 1),
       W(127, <<2>>, 1), W(128, <<12>>, 1), W(129, <<2>>, 1), W(130, <<15>>, 1),
       W(131, <<14>>, 1), W(132, <<13>>, 1), W(133, <<6>>, 1), W(134, <<7>>, 1),
       W(135, <<2>>, 1), W(136, <<2>>, 1), W(137, <<2>>, 1), W(138, <<2>>, 1),
       W(255, <<152, 129, 4>>, 1), W(108, <<21>>, 1), W(110, <<34>>, 1), W(111, <<51>>, 1),
       W(58, <<164>>, 1), W(141, <<13>>, 1), W(135, <<186>>, 1), W(38, <<118>>, 1),
       W(178, <<209>>, 1), W(255, <<152, 129, 1>>, 1), W(34, <<10>>, 1), W(83, <<190>>, 1),
       W(85, <<167>>, 1), W(80, <<116>>, 1), W(81, <<116>>, 1), W(49, <<2>>, 1),
       W(96, <<20>>, 1), W(160, <<21>>, 1), W(161, <<38>>, 1), W(162, <<43>>, 1),
       W(163, <<20>>, 1), W(164, <<23>>, 1), W(165, <<44>>, 1), W(166, <<32>>, 1),
       W(167, <<33>>, 1), W(168, <<149>>, 1), W(169, <<29>>, 1), W(170, <<39>>, 1),
       W(171, <<137>>, 1), W(172, <<26>>, 1), W(173, <<24>>, 1), W(174, <<75>>, 1),
       W(175, <<33>>, 1), W(176, <<38>>, 1), W(177, <<96>>, 1), W(178, <<113>>, 1),
       W(179, <<63>>, 1), W(192, <<5>>, 1), W(193, <<38>>, 1), W(194, <<63>>, 1),
       W(195, <<15>>, 1), W(196, <<20>>, 1), W(197, <<39>>, 1), W(198, <<26>>, 1),
       W(199, <<30>>, 1), W(200, <<158>>, 1), W(201, <<26>>, 1), W(202, <<41>>, 1),
       W(203, <<130>>, 1), W(204, <<24>>, 1), W(205, <<22>>, 1), W(206, <<76>>, 1),
       W(207, <<31>>, 1), W(208, <<40>>, 1), W(209, <<83>>, 1), W(210, <<98>>, 1),
       W(211, <<63>>, 1), W(255, <<152, 129, 0>>, 1), W(17, <<0>>, 1), W(41, <<0>>, 1),
       W(53, <<0>>, 1)    >>

\* the bytes one mipi_dsi_dcs_write statement hands to the host: len bytes of data
Payload(w) == SubSeq(w.data, 1, w.len)

----------------------------------------------------------------------------
(* Calls to the collaborators.  r is the value the call returned (0 for a    *)
(* void call), arg its scalar argument, data its byte payload.               *)

Call(name, arg, data, r) == [call |-> name, arg |-> arg, data |-> data, r |-> r]

Ok(name) == Call(name, 0, <<>>, 0)

\* collaborator state before the driver has touched anything
ZeroRes ==
    [gpio       |-> 0,    \* lines held through gpio_request
     gpio_value |-> -1,   \* electrical level driven on the enable line
     backlight  |-> 0,    \* references on the backlight device
     ddc        |-> 0,    \* references on the I2C adapter
     panels     |-> 0,    \* panels in the DRM panel list
     attached   |-> 0,    \* attachments to the DSI host
     supply     |-> 0,    \* regulator enable count held by the driver
     balance    |-> 0,    \* regulator_enable successes less regulator_disable calls
     bl_power   |-> -1]   \* backlight props.power as last written

\* how many calls of that name were made / returned success
CountAll(calls, name) ==
    Cardinality({i \in 1..Len(calls) : calls[i].call = name})

CountOk(calls, name) ==
    Cardinality({i \in 1..Len(calls) : calls[i].call = name /\ calls[i].r = 0})

\* the argument of the last call that took effect among `names`, else dflt
LastValue(calls, names, needOk, dflt) ==
    LET I == {i \in 1..Len(calls) :
                 /\ calls[i].call \in names
                 /\ (calls[i].call \in needOk => calls[i].r = 0)}
    IN  IF I = {} THEN dflt
        ELSE calls[CHOOSE i \in I : \A j \in I : j <= i].arg

\* the effect of a sequence of calls on the collaborators: an acquisition
\* counts when it returned success, a release always, a failed
\* regulator_enable / regulator_disable / mipi_dsi_detach changes nothing
ApplyAll(s, calls) ==
    [gpio       |-> s.gpio + CountOk(calls, "gpio.request")
                          - CountAll(calls, "gpio.free"),
     gpio_value |-> LastValue(calls, {"gpio.directionOutput", "gpio.setValue"},
                              {"gpio.directionOutput"}, s.gpio_value),
     backlight  |-> s.backlight + CountOk(calls, "backlight.get")
                               - CountAll(calls, "backlight.put"),
     ddc        |-> s.ddc + CountOk(calls, "ddc.get") - CountAll(calls, "ddc.put"),
     panels     |-> s.panels + CountOk(calls, "pipeline.panelAdd")
                            - CountAll(calls, "pipeline.panelRemove"),
     attached   |-> s.attached + CountOk(calls, "dsi.attach")
                              - CountOk(calls, "dsi.detach"),
     supply     |-> s.supply + CountOk(calls, "regulator.enable")
                            - CountOk(calls, "regulator.disable"),
     balance    |-> s.balance + CountOk(calls, "regulator.enable")
                              - CountAll(calls, "regulator.disable"),
     bl_power   |-> LastValue(calls, {"backlight.update"}, {}, s.bl_power)]

----------------------------------------------------------------------------
(* struct panel_simple *)

NoPanel ==
    [enabled |-> FALSE, desc |-> "", backlight |-> FALSE, supply |-> FALSE,
     ddc |-> FALSE, enable_gpio_flags |-> 0, enable_gpio |-> -1]

\* value returned by a call that the environment lets fail with code e
Outcome(faults, what, e) == IF what \in faults THEN e ELSE 0

----------------------------------------------------------------------------
(* panel_simple_disable *)

\* lines 108-111: the backlight is powered down, if there is one
DisableBacklight(p, faults, e) ==
    IF p.backlight
    THEN <<Call("backlight.update", FB_BLANK_POWERDOWN, <<>>,
                Outcome(faults, "backlight", e))>>
    ELSE <<>>

\* lines 113-118: the enable line is deasserted, if there is one
DisableGpio(p) ==
    IF gpio_is_valid(p.enable_gpio)
    THEN IF p.enable_gpio_flags = GPIO_ACTIVE_LOW
         THEN <<Call("gpio.setValue", 1, <<>>, 0)>>
         ELSE <<Call("gpio.setValue", 0, <<>>, 0)>>
    ELSE <<>>

\* line 120: the supply is switched off
DisableSupply(faults, e) ==
    <<Call("regulator.disable", 0, <<>>, Outcome(faults, "regulator", e))>>

\* variant: the enabled flag is not cleared
panel_simple_disable_flag_kept(p, faults, e) ==
    IF ~p.enabled
    THEN [ret |-> 0, calls |-> <<>>, panel |-> p]
    ELSE [ret   |-> 0,
          calls |-> DisableBacklight(p, faults, e) \o DisableGpio(p)
                    \o DisableSupply(faults, e),
          panel |-> p]

\* variant: the supply is cut before the backlight and the enable line
panel_simple_disable_supply_first(p, faults, e) ==
    IF ~p.enabled
    THEN [ret |-> 0, calls |-> <<>>, panel |-> p]
    ELSE [ret   |-> 0,
          calls |-> DisableSupply(faults, e) \o DisableBacklight(p, faults, e)
                    \o DisableGpio(p),
          panel |-> [p EXCEPT !.enabled = FALSE]]

\* variant: a failed backlight update ends the sequence with its error
panel_simple_disable_stops_on_error(p, faults, e) ==
    IF ~p.enabled
    THEN [ret |-> 0, calls |-> <<>>, panel |-> p]
    ELSE IF p.backlight /\ "backlight" \in faults
    THEN [ret |-> e, calls |-> DisableBacklight(p, faults, e), panel |-> p]
    ELSE [ret   |-> 0,
          calls |-> DisableBacklight(p, faults, e) \o DisableGpio(p)
                    \o DisableSupply(faults, e),
          panel |-> [p EXCEPT !.enabled = FALSE]]

panel_simple_disable(p, faults, e) ==
    IF ~p.enabled
    THEN [ret |-> 0, calls |-> <<>>, panel |-> p]
    ELSE [ret   |-> 0,
          calls |-> DisableBacklight(p, faults, e) \o DisableGpio(p)
                    \o DisableSupply(faults, e),
          panel |-> [p EXCEPT !.enabled = FALSE]]

(* panel_simple_enable *)

\* lines 140-145: the enable line is asserted, if there is one
EnableGpio(p) ==
    IF gpio_is_valid(p.enable_gpio)
    THEN IF p.enable_gpio_flags = GPIO_ACTIVE_LOW
         THEN <<Call("gpio.setValue", 0, <<>>, 0)>>
         ELSE <<Call("gpio.setValue", 1, <<>>, 0)>>
    ELSE <<>>

\* variant: the backlight is written without testing the pointer
EnableBacklight_unguarded(p, faults, e) ==
    <<Call("backlight.update", FB_BLANK_UNBLANK, <<>>,
           Outcome(faults, "backlight", e))>>

\* lines 147-150: the backlight is unblanked, if there is one
EnableBacklight(p, faults, e) ==
    IF p.backlight
    THEN <<Call("backlight.update", FB_BLANK_UNBLANK, <<>>,
                Outcome(faults, "backlight", e))>>
    ELSE <<>>

\* variant: the early return on an enabled panel is missing
panel_simple_enable_unguarded(p, faults, e) ==
    IF "regulator" \in faults
    THEN [ret   |-> e,
          calls |-> <<Call("regulator.enable", 0, <<>>, e)>>,
          panel |-> p]
    ELSE [ret   |-> 0,
          calls |-> <<Ok("regulator.enable")>> \o EnableGpio(p)
                    \o EnableBacklight(p, faults, e),
          panel |-> [p EXCEPT !.enabled = TRUE]]

\* variant: the enable line is asserted before the supply is switched on
panel_simple_enable_gpio_first(p, faults, e) ==
    IF p.enabled
    THEN [ret |-> 0, calls |-> <<>>, panel |-> p]
    ELSE IF "regulator" \in faults
    THEN [ret   |-> e,
          calls |-> EnableGpio(p) \o <<Call("regulator.enable", 0, <<>>, e)>>,
          panel |-> p]
    ELSE [ret   |-> 0,
          calls |-> EnableGpio(p) \o <<Ok("regulator.enable")>>
                    \o EnableBacklight(p, faults, e),
          panel |-> [p EXCEPT !.enabled = TRUE]]

panel_simple_enable(p, faults, e) ==
    IF p.enabled
    THEN [ret |-> 0, calls |-> <<>>, panel |-> p]
    ELSE IF "regulator" \in faults
    THEN [ret   |-> e,
          calls |-> <<Call("regulator.enable", 0, <<>>, e)>>,
          panel |-> p]
    ELSE [ret   |-> 0,
          calls |-> <<Ok("regulator.enable")>> \o EnableGpio(p)
                    \o EnableBacklight(p, faults, e),
          panel |-> [p EXCEPT !.enabled = TRUE]]

----------------------------------------------------------------------------
(* panel_simple_get_fixed_modes and panel_simple_get_modes *)

\* lines 79-93: one round of the loop for every mode i..n of the descriptor;
\* dupFail holds the modes for which drm_mode_duplicate returns NULL
RECURSIVE FixedModeCalls(_, _, _)
FixedModeCalls(i, n, dupFail) ==
    IF i > n THEN <<>>
    ELSE (IF i \in dupFail
          THEN <<Call("mode.duplicate", i, <<>>, -1)>>
          ELSE <<Call("mode.duplicate", i, <<>>, 0),
                 Call("mode.setName", i, <<>>, 0),
                 Call("mode.probedAdd", i, <<>>, 0)>>)
         \o FixedModeCalls(i + 1, n, dupFail)

\* lines 95-96: the two stores into the connector's display_info
DisplayInfo(size) ==
    <<Call("connector.width_mm", size.width, <<>>, 0),
      Call("connector.height_mm", size.height, <<>>, 0)>>

\* variant: the loop is left at the first failed copy and the function
\* returns before the physical size is stored
panel_simple_get_fixed_modes_bails(p, dupFail) ==
    IF p.desc \notin DOMAIN dsi_of_match
    THEN [num |-> 0, calls |-> <<>>]
    ELSE LET d == dsi_of_match[p.desc].desc
         IN  IF dupFail \cap (1..d.num_modes) # {}
             THEN [num |-> 0, calls |-> <<Call("mode.duplicate", 1, <<>>, -1)>>]
             ELSE [num   |-> d.num_modes,
                   calls |-> FixedModeCalls(1, d.num_modes, {})
                             \o DisplayInfo(d.size)]

panel_simple_get_fixed_modes(p, dupFail) ==
    IF p.desc \notin DOMAIN dsi_of_match
    THEN [num |-> 0, calls |-> <<>>]
    ELSE LET d == dsi_of_match[p.desc].desc
         IN  [num   |-> Cardinality((1..d.num_modes) \ dupFail),
              calls |-> FixedModeCalls(1, d.num_modes, dupFail)
                        \o DisplayInfo(d.size)]

\* edid is -1 when drm_get_edid returns NULL, else the number of modes
\* drm_add_edid_modes adds for the blob that was read
panel_simple_get_modes(p, edid, dupFail) ==
    LET probe == IF p.ddc
                 THEN <<Call("edid.read", 0, <<>>, IF edid < 0 THEN -1 ELSE 0),
                        Ok("edid.updateProperty")>>
                      \o (IF edid >= 0
                          THEN <<Call("edid.addModes", edid, <<>>, 0)>>
                          ELSE <<>>)
                 ELSE <<>>
        num   == IF p.ddc /\ edid >= 0 THEN edid ELSE 0
        fixed == panel_simple_get_fixed_modes(p, dupFail)
    IN  [ret   |-> num + fixed.num,
         calls |-> probe \o fixed.calls,
         panel |-> p]

----------------------------------------------------------------------------
(* panel_simple_probe and its unwind labels *)

free_gpio(p) ==
    IF gpio_is_valid(p.enable_gpio) THEN <<Ok("gpio.free")>> ELSE <<>>

free_backlight(p) ==
    (IF p.backlight THEN <<Ok("backlight.put")>> ELSE <<>>) \o free_gpio(p)

free_ddc(p) ==
    (IF p.ddc THEN <<Ok("ddc.put")>> ELSE <<>>) \o free_backlight(p)

\* the steps of probe that the environment may fail, in program order
ProbeSteps ==
    {"none", "kzalloc", "regulator_get", "gpio_request", "gpio_direction",
     "panel_add", "dsi_attach"}

\* lines 191-200: allocation and devm_regulator_get
ProbeAlloc(desc) ==
    [enabled |-> FALSE, desc |-> desc, backlight |-> FALSE, supply |-> TRUE,
     ddc |-> FALSE, enable_gpio_flags |-> 0, enable_gpio |-> -1]

\* variant: the active-low flag of the device tree is not taken over
ProbeGpio_polarity_dropped(p) ==
    [p EXCEPT !.enable_gpio = cfg.enable_gpio]

\* lines 202-209: of_get_named_gpio_flags and the polarity flag
ProbeGpio(p) ==
    [p EXCEPT !.enable_gpio = cfg.enable_gpio,
              !.enable_gpio_flags =
                  IF gpio_is_valid(cfg.enable_gpio)
                     /\ cfg.gpio_flags = OF_GPIO_ACTIVE_LOW
                  THEN GPIO_ACTIVE_LOW ELSE 0]

\* line 218: the level that deasserts the enable line
ProbeGpioValue(p) == IF p.enable_gpio_flags = GPIO_ACTIVE_LOW THEN 1 ELSE 0

\* lines 250-260: registration with the DRM panel list
ProbeAdd(p, calls, fail, e) ==
    IF fail = "panel_add"
    THEN [ret |-> e, panel |-> p,
          calls |-> calls \o <<Call("pipeline.panelAdd", 0, <<>>, e)>>
                          \o free_ddc(p)]
    ELSE [ret |-> 0, panel |-> p,
          calls |-> calls \o <<Ok("pipeline.panelAdd")>>]

\* lines 239-248: the optional DDC bus
ProbeDdc(p, calls, fail, e) ==
    IF cfg.ddc
    THEN IF ddcReady
         THEN ProbeAdd([p EXCEPT !.ddc = TRUE],
                       calls \o <<Ok("ddc.get")>>, fail, e)
         ELSE [ret |-> -EPROBE_DEFER, panel |-> p,
               calls |-> calls \o <<Call("ddc.get", 0, <<>>, -1)>>
                               \o free_backlight(p)]
    ELSE ProbeAdd(p, calls, fail, e)

\* variant: the deferral returns without the jump to free_gpio
ProbeBacklight_no_unwind(p, calls, fail, e) ==
    IF cfg.backlight
    THEN IF backlightReady
         THEN ProbeDdc([p EXCEPT !.backlight = TRUE],
                       calls \o <<Ok("backlight.get")>>, fail, e)
         ELSE [ret |-> -EPROBE_DEFER, panel |-> p,
               calls |-> calls \o <<Call("backlight.get", 0, <<>>, -1)>>]
    ELSE ProbeDdc(p, calls, fail, e)

\* lines 228-237: the optional backlight
ProbeBacklight(p, calls, fail, e) ==
    IF cfg.backlight
    THEN IF backlightReady
         THEN ProbeDdc([p EXCEPT !.backlight = TRUE],
                       calls \o <<Ok("backlight.get")>>, fail, e)
         ELSE [ret |-> -EPROBE_DEFER, panel |-> p,
               calls |-> calls
                         \o <<Call("backlight.get", 0, <<>>, -1)>>
                         \o free_gpio(p)]
    ELSE ProbeDdc(p, calls, fail, e)

panel_simple_probe(desc, fail, e) ==
    IF fail = "kzalloc"
    THEN [ret |-> -ENOMEM, panel |-> NoPanel, calls |-> <<>>]
    ELSE IF fail = "regulator_get"
    THEN [ret |-> e, panel |-> ProbeAlloc(desc),
          calls |-> <<Call("regulator.get", 0, <<>>, e)>>]
    ELSE
      LET p     == ProbeGpio(ProbeAlloc(desc))
          calls == <<Ok("regulator.get")>>
      IN  IF gpio_is_valid(p.enable_gpio)
          THEN IF fail = "gpio_request"
               THEN [ret |-> e, panel |-> p,
                     calls |-> calls \o <<Call("gpio.request", 0, <<>>, e)>>]
               ELSE IF fail = "gpio_direction"
               THEN [ret |-> e, panel |-> p,
                     calls |-> calls
                         \o <<Ok("gpio.request"),
                              Call("gpio.directionOutput", ProbeGpioValue(p),
                                   <<>>, e)>>
                         \o free_gpio(p)]
               ELSE ProbeBacklight(p,
                        calls \o <<Ok("gpio.request"),
                                   Call("gpio.directionOutput",
                                        ProbeGpioValue(p), <<>>, 0)>>,
                        fail, e)
          ELSE ProbeBacklight(p, calls, fail, e)

----------------------------------------------------------------------------
(* panel_simple_dsi_probe *)

\* lines 520-709: every statement of the command list, in program order;
\* dcsFail holds the statements whose mipi_dsi_dcs_write returns the error e
DcsWrites(dcsFail, e) ==
    [i \in 1..Len(InitScript) |->
        Call("dsi.dcsWrite", InitScript[i].cmd, Payload(InitScript[i]),
             IF i \in dcsFail THEN e ELSE 0)]

MsleepAfter == 186

ScriptCalls(dcsFail, e) ==
    SubSeq(DcsWrites(dcsFail, e), 1, MsleepAfter)
    \o <<Call("msleep", 1, <<>>, 0)>>
    \o SubSeq(DcsWrites(dcsFail, e), MsleepAfter + 1, Len(InitScript))

\* lines 517, 711-712: the device structure once the three fields are written
DsiOf(desc) ==
    [mode_flags |-> desc.flags, format |-> desc.format, lanes |-> desc.lanes]

\* line 714: mipi_dsi_attach(dsi) returning r; data holds the device structure
\* as it is when the host receives it
mipi_dsi_attach(d, r) == Call("dsi.attach", 0, <<d>>, r)

\* variant: format and lanes are written after the host has been attached
panel_simple_dsi_probe_attach_early(d, fail, e, dcsFail) ==
    IF ~of_match_node(cfg.compatible)
    THEN [ret |-> -ENODEV, panel |-> NoPanel, calls |-> <<>>, dsi |-> d]
    ELSE
      LET desc == dsi_of_match[cfg.compatible]
          base == panel_simple_probe(cfg.compatible, fail, e)
      IN  IF base.ret < 0
          THEN [ret |-> base.ret, panel |-> base.panel,
                calls |-> base.calls, dsi |-> d]
          ELSE [ret   |-> Outcome({fail}, "dsi_attach", e),
                panel |-> base.panel,
                calls |-> base.calls \o ScriptCalls(dcsFail, e)
                          \o <<mipi_dsi_attach(
                                    [d EXCEPT !.mode_flags = desc.flags],
                                    Outcome({fail}, "dsi_attach", e))>>,
                dsi   |-> DsiOf(desc)]

\* variant: the first failed write ends the probe with its error
panel_simple_dsi_probe_checks_ret(d, fail, e, dcsFail) ==
    IF ~of_match_node(cfg.compatible)
    THEN [ret |-> -ENODEV, panel |-> NoPanel, calls |-> <<>>, dsi |-> d]
    ELSE
      LET desc == dsi_of_match[cfg.compatible]
          base == panel_simple_probe(cfg.compatible, fail, e)
      IN  IF base.ret < 0
          THEN [ret |-> base.ret, panel |-> base.panel,
                calls |-> base.calls, dsi |-> d]
          ELSE IF dcsFail # {}
          THEN [ret   |-> e,
                panel |-> base.panel,
                calls |-> base.calls
                          \o SubSeq(DcsWrites(dcsFail, e), 1,
                                    CHOOSE i \in dcsFail :
                                        \A j \in dcsFail : i <= j),
                dsi   |-> [d EXCEPT !.mode_flags = desc.flags]]
          ELSE [ret   |-> Outcome({fail}, "dsi_attach", e),
                panel |-> base.panel,
                calls |-> base.calls \o ScriptCalls(dcsFail, e)
                          \o <<mipi_dsi_attach(DsiOf(desc),
                                    Outcome({fail}, "dsi_attach", e))>>,
                dsi   |-> DsiOf(desc)]

\* variant: mode_flags is written before panel_simple_probe is called
panel_simple_dsi_probe_flags_first(d, fail, e, dcsFail) ==
    IF ~of_match_node(cfg.compatible)
    THEN [ret |-> -ENODEV, panel |-> NoPanel, calls |-> <<>>, dsi |-> d]
    ELSE
      LET desc == dsi_of_match[cfg.compatible]
          base == panel_simple_probe(cfg.compatible, fail, e)
      IN  IF base.ret < 0
          THEN [ret |-> base.ret, panel |-> base.panel,
                calls |-> base.calls,
                dsi |-> [d EXCEPT !.mode_flags = desc.flags]]
          ELSE [ret   |-> Outcome({fail}, "dsi_attach", e),
                panel |-> base.panel,
                calls |-> base.calls \o ScriptCalls(dcsFail, e)
                          \o <<mipi_dsi_attach(DsiOf(desc),
                                    Outcome({fail}, "dsi_attach", e))>>,
                dsi   |-> DsiOf(desc)]

\* variant: a node that matches no row is driven with the first row's data
panel_simple_dsi_probe_first_row(d, fail, e, dcsFail) ==
      LET compatible == IF of_match_node(cfg.compatible) THEN cfg.compatible
                        ELSE dsi_of_match_table[1].compatible
          desc == dsi_of_match[compatible]
          base == panel_simple_probe(compatible, fail, e)
      IN  IF base.ret < 0
          THEN [ret |-> base.ret, panel |-> base.panel,
                calls |-> base.calls, dsi |-> d]
          ELSE [ret   |-> Outcome({fail}, "dsi_attach", e),
                panel |-> base.panel,
                calls |-> base.calls \o ScriptCalls(dcsFail, e)
                          \o <<mipi_dsi_attach(DsiOf(desc),
                                    Outcome({fail}, "dsi_attach", e))>>,
                dsi   |-> DsiOf(desc)]

panel_simple_dsi_probe(d, fail, e, dcsFail) ==
    IF ~of_match_node(cfg.compatible)
    THEN [ret |-> -ENODEV, panel |-> NoPanel, calls |-> <<>>, dsi |-> d]
    ELSE
      LET desc == dsi_of_match[cfg.compatible]
          base == panel_simple_probe(cfg.compatible, fail, e)
      IN  IF base.ret < 0
          THEN [ret |-> base.ret, panel |-> base.panel,
                calls |-> base.calls, dsi |-> d]
          ELSE [ret   |-> Outcome({fail}, "dsi_attach", e),
                panel |-> base.panel,
                calls |-> base.calls \o ScriptCalls(dcsFail, e)
                          \o <<mipi_dsi_attach(DsiOf(desc),
                                    Outcome({fail}, "dsi_attach", e))>>,
                dsi   |-> DsiOf(desc)]

----------------------------------------------------------------------------
(* panel_simple_shutdown and panel_simple_dsi_shutdown *)

\* variant: the disable steps run whether or not the panel is enabled
panel_simple_shutdown_unconditional(p, faults, e) ==
    LET dis == panel_simple_disable([p EXCEPT !.enabled = TRUE], faults, e)
    IN  [ret |-> 0, calls |-> dis.calls, panel |-> dis.panel]

\* lines 296-301: the value panel_simple_disable returns is dropped
panel_simple_shutdown(p, faults, e) ==
    LET dis == panel_simple_disable(p, faults, e)
    IN  [ret |-> 0, calls |-> dis.calls, panel |-> dis.panel]

\* lines 728-731
panel_simple_dsi_shutdown(p, faults, e) == panel_simple_shutdown(p, faults, e)

----------------------------------------------------------------------------
(* panel_simple_remove and panel_simple_dsi_remove *)

\* variant: the GPIO line is freed before the references are dropped
panel_simple_remove_gpio_first(p, faults, e) ==
    LET dis == panel_simple_disable(p, faults, e)
    IN  [ret   |-> 0,
         panel |-> dis.panel,
         calls |-> <<Ok("pipeline.panelDetach"), Ok("pipeline.panelRemove")>>
                   \o dis.calls
                   \o (IF gpio_is_valid(p.enable_gpio)
                       THEN <<Ok("gpio.free")>> ELSE <<>>)
                   \o (IF p.ddc THEN <<Ok("ddc.put")>> ELSE <<>>)
                   \o (IF p.backlight THEN <<Ok("backlight.put")>> ELSE <<>>)]

\* variant: the panel is disabled after its references have been dropped
panel_simple_remove_disable_last(p, faults, e) ==
    LET dis == panel_simple_disable(p, faults, e)
    IN  [ret   |-> 0,
         panel |-> dis.panel,
         calls |-> <<Ok("pipeline.panelDetach"), Ok("pipeline.panelRemove")>>
                   \o (IF p.ddc THEN <<Ok("ddc.put")>> ELSE <<>>)
                   \o (IF p.backlight THEN <<Ok("backlight.put")>> ELSE <<>>)
                   \o (IF gpio_is_valid(p.enable_gpio)
                       THEN <<Ok("gpio.free")>> ELSE <<>>)
                   \o dis.calls]

\* variant: the panel is removed without being disabled
panel_simple_remove_no_disable(p, faults, e) ==
    [ret   |-> 0,
     panel |-> [p EXCEPT !.enabled = FALSE],
     calls |-> <<Ok("pipeline.panelDetach"), Ok("pipeline.panelRemove")>>
               \o (IF p.ddc THEN <<Ok("ddc.put")>> ELSE <<>>)
               \o (IF p.backlight THEN <<Ok("backlight.put")>> ELSE <<>>)
               \o (IF gpio_is_valid(p.enable_gpio)
                   THEN <<Ok("gpio.free")>> ELSE <<>>)]

panel_simple_remove(p, faults, e) ==
    LET dis == panel_simple_disable(p, faults, e)
    IN  [ret   |-> 0,
         panel |-> dis.panel,
         calls |-> <<Ok("pipeline.panelDetach"), Ok("pipeline.panelRemove")>>
                   \o dis.calls
                   \o (IF p.ddc THEN <<Ok("ddc.put")>> ELSE <<>>)
                   \o (IF p.backlight THEN <<Ok("backlight.put")>> ELSE <<>>)
                   \o (IF gpio_is_valid(p.enable_gpio)
                       THEN <<Ok("gpio.free")>> ELSE <<>>)]

\* variant: a failed mipi_dsi_detach ends the removal with its error
panel_simple_dsi_remove_returns_err(p, faults, e) ==
    LET base == panel_simple_remove(p, faults, e)
    IN  IF "dsi_detach" \in faults
        THEN [ret |-> e, panel |-> p,
              calls |-> <<Call("dsi.detach", 0, <<>>, e)>>]
        ELSE [ret   |-> base.ret,
              panel |-> base.panel,
              calls |-> <<Ok("dsi.detach")>> \o base.calls]

panel_simple_dsi_remove(p, faults, e) ==
    LET base == panel_simple_remove(p, faults, e)
    IN  [ret   |-> base.ret,
         panel |-> base.panel,
         calls |-> <<Call("dsi.detach", 0, <<>>, Outcome(faults, "dsi_detach", e))>>
                   \o base.calls]

----------------------------------------------------------------------------
(* The state machine *)

\* the device-tree nodes explored: every combination of enable GPIO, polarity,
\* backlight and DDC bus for a node that matches the first row of the table
\* and for one that matches none; the other rows, whose data differ but on
\* which no statement branches, with a node that has none of the three
Bindings ==
    { [compatible |-> c, enable_gpio |-> g, gpio_flags |-> f,
       backlight |-> b, ddc |-> d] :
        c \in {dsi_of_match_table[1].compatible, "acme,unknown"},
        g \in {-2, 7}, f \in {0, OF_GPIO_ACTIVE_LOW},
        b \in BOOLEAN, d \in BOOLEAN }
    \cup
    { [compatible |-> dsi_of_match_table[i].compatible, enable_gpio |-> -2,
       gpio_flags |-> 0, backlight |-> FALSE, ddc |-> FALSE] :
        i \in 2..Len(dsi_of_match_table) }

NoDsi == [mode_flags |-> {}, format |-> "", lanes |-> 0]

\* the contexts that call into the driver
Contexts == {"a", "b"}

\* a context that is inside no entry point
Idle ==
    [op |-> "idle", stage |-> 0, seen |-> FALSE, todo |-> <<>>,
     done |-> <<>>, fin |-> FALSE, ret |-> 0]

Init ==
    /\ cfg \in {b \in Bindings : gpio_is_valid(b.enable_gpio) \/ b.gpio_flags = 0}
    /\ backlightReady \in {r \in BOOLEAN : r => cfg.backlight}
    /\ ddcReady \in {r \in BOOLEAN : r => cfg.ddc}
    /\ bound = FALSE
    /\ panel = NoPanel
    /\ dsi = NoDsi
    /\ res = ZeroRes
    /\ probeKept = <<>>
    /\ trace = <<>>
    /\ lastOp = "init"
    /\ pre = NoPanel
    /\ ret = 0
    /\ prevRet = 0
    /\ nProbes = 0
    /\ running = [c \in Contexts |-> Idle]
    /\ mutex = "none"

\* the host creates the backlight device / the I2C adapter
RegisterBacklight ==
    /\ cfg.backlight /\ ~backlightReady
    /\ backlightReady' = TRUE
    /\ UNCHANGED <<cfg, ddcReady, bound, panel, dsi, res,
                   probeKept, trace, lastOp, pre, ret, prevRet, nProbes, running, mutex>>

RegisterDdc ==
    /\ cfg.ddc /\ ~ddcReady
    /\ ddcReady' = TRUE
    /\ UNCHANGED <<cfg, backlightReady, bound, panel, dsi, res,
                   probeKept, trace, lastOp, pre, ret, prevRet, nProbes, running, mutex>>

\* the sets of failing mipi_dsi_dcs_write statements that are explored
DcsFailSets ==
    {{}, {1}, {Len(InitScript)}, 1..Len(InitScript)}

\* a probe's calls without its command list (lines 520-709)
Lasting(calls) ==
    SelectSeq(calls, LAMBDA c : c.call \notin {"dsi.dcsWrite", "msleep"})

\* what the driver core and the collaborators keep of a probe
ProbeOp(out) ==
    /\ bound' = (out.ret = 0)
    /\ panel' = IF out.ret = 0 THEN out.panel ELSE NoPanel
    /\ dsi' = out.dsi
    /\ res' = ApplyAll(res, out.calls)
    /\ probeKept' = Lasting(out.calls)
    /\ trace' = out.calls
    /\ ret' = out.ret

\* the driver core binds the DSI device: panel_simple_dsi_probe
DsiProbe ==
    /\ ~bound
    /\ nProbes < MaxProbes
    \* the driver core calls probe again only after -EPROBE_DEFER (233, 244)
    /\ lastOp = "probe" => ret = -EPROBE_DEFER
    /\ \E fail \in ProbeSteps, e \in CollabErrs, dcsFail \in DcsFailSets :
          ProbeOp(panel_simple_dsi_probe(dsi, fail, e, dcsFail))
    /\ lastOp' = "probe"
    /\ pre' = panel
    /\ prevRet' = IF lastOp = "probe" THEN ret ELSE 0
    /\ nProbes' = nProbes + 1
    /\ UNCHANGED <<cfg, backlightReady, ddcReady, running, mutex>>

\* a handler that runs on the bound panel and leaves it bound
PanelOp(name, out) ==
    /\ panel' = out.panel
    /\ res' = ApplyAll(res, out.calls)
    /\ trace' = out.calls
    /\ lastOp' = name
    /\ pre' = panel
    /\ ret' = out.ret
    /\ UNCHANGED <<cfg, backlightReady, ddcReady, bound, dsi, probeKept,
                   prevRet, nProbes, running, mutex>>

OpFaults == SUBSET {"regulator", "backlight"}

\* drm_panel_funcs.enable
Enable ==
    /\ bound /\ res.supply < MaxSupply
    /\ \E faults \in OpFaults, e \in CollabErrs :
          PanelOp("enable",
                  panel_simple_enable(panel, faults, e))

\* drm_panel_funcs.disable
Disable ==
    /\ bound
    /\ \E faults \in OpFaults, e \in CollabErrs :
          PanelOp("disable",
                  panel_simple_disable(panel, faults, e))

\* drm_panel_funcs.get_modes
GetModes ==
    /\ bound
    /\ \E edid \in -1..MaxEdidModes,
          dupFail \in SUBSET (1..dsi_of_match[panel.desc].desc.num_modes) :
          PanelOp("get_modes",
                  panel_simple_get_modes(panel, edid, dupFail))

\* mipi_dsi_driver.shutdown: panel_simple_dsi_shutdown -> panel_simple_shutdown
Shutdown ==
    /\ bound
    /\ \E faults \in OpFaults, e \in CollabErrs :
          PanelOp("shutdown",
                  panel_simple_dsi_shutdown(panel, faults, e))

\* mipi_dsi_driver.remove: panel_simple_dsi_remove
DsiRemove ==
    /\ bound
    /\ \E faults \in SUBSET {"regulator", "backlight", "dsi_detach"},
          e \in CollabErrs :
          LET out == panel_simple_dsi_remove(panel, faults, e)
          IN  /\ panel' = out.panel
              /\ res' = ApplyAll(res, out.calls)
              /\ trace' = out.calls
              /\ ret' = out.ret
    /\ bound' = FALSE
    /\ lastOp' = "remove"
    /\ pre' = panel
    /\ UNCHANGED <<cfg, backlightReady, ddcReady, dsi, probeKept,
                   prevRet, nProbes, running, mutex>>

Next ==
    \/ RegisterBacklight
    \/ RegisterDdc
    \/ DsiProbe
    \/ Enable
    \/ Disable
    \/ GetModes
    \/ Shutdown
    \/ DsiRemove

Spec == Init /\ [][Next]_vars

----------------------------------------------------------------------------
(* Two contexts calling the entry points of one bound panel, one statement  *)
(* at a time.  A handler reads the enabled flag where its code tests it,    *)
(* then makes its calls one by one, then writes the flag.  The driver takes *)
(* no lock of its own; the host pipeline lets one context in at a time.     *)

\* variant: the host pipeline lets a context in without taking the mutex
HostAcquire_unguarded(c) == mutex' = c

\* the host pipeline takes its mutual-exclusion primitive around a call
HostAcquire(c) == mutex = "none" /\ mutex' = c

\* the host pipeline gives the primitive up when the call returns
HostRelease(c) == mutex' = "none"

\* the state right after a probe in which nothing failed
InitContexts ==
    /\ cfg \in {b \in Bindings :
                  /\ b.compatible = dsi_of_match_table[1].compatible
                  /\ b.gpio_flags = 0 /\ ~b.ddc}
    /\ backlightReady = cfg.backlight
    /\ ddcReady = cfg.ddc
    /\ bound = TRUE
    /\ \E e \in CollabErrs :
          /\ panel = panel_simple_dsi_probe(NoDsi, "none", e, {}).panel
          /\ dsi = panel_simple_dsi_probe(NoDsi, "none", e, {}).dsi
          /\ res = ApplyAll(ZeroRes,
                            panel_simple_dsi_probe(NoDsi, "none", e, {}).calls)
          /\ probeKept =
                Lasting(panel_simple_dsi_probe(NoDsi, "none", e, {}).calls)
          /\ trace = panel_simple_dsi_probe(NoDsi, "none", e, {}).calls
    /\ lastOp = "probe"
    /\ pre = NoPanel
    /\ ret = 0
    /\ prevRet = 0
    /\ nProbes = 1
    /\ running = [c \in Contexts |-> Idle]
    /\ mutex = "none"

\* a context that is inside no entry point may call one of a bound panel
MayEnter(c) == bound /\ running[c].op = "idle"

\* the calls whose failure changes the path a handler takes
PathFaults == SUBSET {"regulator"}

\* context c enters handler op: out is what the handler decides on the
\* struct panel_simple it finds
Begin(c, op, out) ==
    /\ HostAcquire(c)
    /\ running' = [running EXCEPT ![c] =
                      [op |-> op, stage |-> 1, seen |-> panel.enabled,
                       todo |-> out.calls, done |-> <<>>,
                       fin |-> out.panel.enabled, ret |-> out.ret]]
    /\ trace' = <<>>
    /\ pre' = panel
    /\ UNCHANGED <<cfg, backlightReady, ddcReady, bound, panel, dsi, res,
                   probeKept, lastOp, ret, prevRet, nProbes>>

\* lines 126-133: panel_simple_enable up to its test of the flag
EnterEnable(c) ==
    /\ MayEnter(c) /\ res.supply < MaxSupply
    /\ \E faults \in PathFaults, e \in CollabErrs :
          Begin(c, "enable", panel_simple_enable(panel, faults, e))

\* lines 101-106: panel_simple_disable up to its test of the flag
EnterDisable(c) ==
    /\ MayEnter(c)
    /\ \E faults \in PathFaults, e \in CollabErrs :
          Begin(c, "disable", panel_simple_disable(panel, faults, e))

\* lines 728-731 and 296-301, then panel_simple_disable's test
EnterShutdown(c) ==
    /\ MayEnter(c)
    /\ \E faults \in PathFaults, e \in CollabErrs :
          Begin(c, "shutdown", panel_simple_dsi_shutdown(panel, faults, e))

\* lines 157-176
EnterGetModes(c) ==
    /\ MayEnter(c)
    /\ \E edid \in -1..MaxEdidModes,
          dupFail \in SUBSET (1..dsi_of_match[panel.desc].desc.num_modes) :
          Begin(c, "get_modes", panel_simple_get_modes(panel, edid, dupFail))

\* the calls panel_simple_dsi_remove makes before panel_simple_disable
BeforeDisable(calls) ==
    SelectSeq(calls, LAMBDA k : k.call \in {"dsi.detach",
                  "pipeline.panelDetach", "pipeline.panelRemove"})

\* the calls panel_simple_remove makes after panel_simple_disable
AfterDisable(calls) ==
    SelectSeq(calls, LAMBDA k : k.call \in {"ddc.put", "backlight.put",
                                            "gpio.free"})

\* lines 717-725 and 275-280: mipi_dsi_detach, drm_panel_detach,
\* drm_panel_remove
EnterRemove(c) ==
    /\ MayEnter(c)
    /\ \E faults \in SUBSET {"dsi_detach"}, e \in CollabErrs :
          LET out == panel_simple_dsi_remove(panel, faults, e)
          IN  Begin(c, "remove",
                    [ret |-> out.ret, panel |-> panel,
                     calls |-> BeforeDisable(out.calls)])

\* lines 282-291: panel_simple_remove reaches panel_simple_disable, which
\* tests the flag now; the releases follow
RemoveDisable(c) ==
    /\ running[c].op = "remove" /\ running[c].stage = 1
    /\ running[c].todo = <<>>
    /\ \E faults \in PathFaults, e \in CollabErrs :
          LET dis == panel_simple_disable(panel, faults, e)
              rel == AfterDisable(panel_simple_remove(panel, faults, e).calls)
          IN  running' = [running EXCEPT ![c].stage = 2,
                                         ![c].seen = panel.enabled,
                                         ![c].todo = dis.calls \o rel,
                                         ![c].fin = dis.panel.enabled]
    /\ UNCHANGED <<cfg, backlightReady, ddcReady, bound, panel, dsi, res,
                   probeKept, trace, lastOp, pre, ret, prevRet, nProbes,
                   mutex>>

\* context c makes the next call of the handler it is inside
Step(c) ==
    /\ running[c].todo # <<>>
    /\ res' = ApplyAll(res, <<Head(running[c].todo)>>)
    /\ trace' = Append(trace, Head(running[c].todo))
    /\ running' = [running EXCEPT
                      ![c].todo = Tail(running[c].todo),
                      ![c].done = Append(running[c].done,
                                         Head(running[c].todo))]
    /\ UNCHANGED <<cfg, backlightReady, ddcReady, bound, panel, dsi,
                   probeKept, lastOp, pre, ret, prevRet, nProbes, mutex>>

\* the handler writes the flag if it changes it (lines 121, 152) and returns
Leave(c) ==
    /\ running[c].op # "idle" /\ running[c].todo = <<>>
    /\ running[c].op = "remove" => running[c].stage = 2
    /\ panel' = IF running[c].fin # running[c].seen
                THEN [panel EXCEPT !.enabled = running[c].fin]
                ELSE panel
    /\ ret' = running[c].ret
    /\ lastOp' = running[c].op
    /\ bound' = (running[c].op # "remove")
    /\ running' = [running EXCEPT ![c] = Idle]
    /\ HostRelease(c)
    /\ UNCHANGED <<cfg, backlightReady, ddcReady, dsi, res, probeKept, trace,
                   pre, prevRet, nProbes>>

NextContexts ==
    \E c \in Contexts :
        \/ EnterEnable(c)
        \/ EnterDisable(c)
        \/ EnterShutdown(c)
        \/ EnterGetModes(c)
        \/ EnterRemove(c)
        \/ RemoveDisable(c)
        \/ Step(c)
        \/ Leave(c)

SpecContexts == InitContexts /\ [][NextContexts]_vars

----------------------------------------------------------------------------
(* Derived views *)

\* the positions of the calls of the given names
\* the calls of the latest probe, in program order: a probe that reaches
\* mipi_dsi_attach (line 714) has run the whole command list just before it.
\* The writes' return values are never read and are not kept.
probeTrace ==
    IF probeKept # <<>> /\ probeKept[Len(probeKept)].call = "dsi.attach"
    THEN SubSeq(probeKept, 1, Len(probeKept) - 1) \o ScriptCalls({}, 0)
         \o <<probeKept[Len(probeKept)]>>
    ELSE probeKept

Where(calls, names) == {i \in 1..Len(calls) : calls[i].call \in names}

\* the electrical level that puts the enable line at logical level l, by the
\* polarity the device tree declares
Electrical(l) == IF cfg.gpio_flags = OF_GPIO_ACTIVE_LOW THEN 1 - l ELSE l

\* the latest handler was enable / disable and found the panel Disabled / Enabled
EnabledNow == lastOp = "enable" /\ ~pre.enabled /\ ret = 0
DisabledNow == lastOp = "disable" /\ pre.enabled

----------------------------------------------------------------------------
(* Properties *)

\* C1: when disable() (or shutdown()) returns the enabled flag is false; when
\* enable() returns success the flag is true; when enable() returns an error
\* the flag is false -- after any sequence of calls and regulator outcomes.
C1_EnabledFlagFollowsReturn ==
    /\ lastOp \in {"disable", "shutdown"} => ~panel.enabled
    /\ (lastOp = "enable" /\ ret = 0) => panel.enabled
    /\ (lastOp = "enable" /\ ret < 0) => ~panel.enabled

\* an enable() whose regulator_enable failed has returned the error
C1_Witness ==
    /\ lastOp = "enable" /\ ret < 0
    /\ Len(trace) = 1 /\ trace[1].call = "regulator.enable" /\ trace[1].r < 0

\* the rank of a call in the order regulator, enable line, command list,
\* backlight; 0 for every other call
C2_Rank(c) ==
    CASE c.call = "regulator.enable"                                 -> 1
      [] c.call = "gpio.setValue" /\ c.arg = Electrical(1)           -> 2
      [] c.call = "dsi.dcsWrite"                                     -> 3
      [] c.call = "backlight.update" /\ c.arg = FB_BLANK_UNBLANK     -> 4
      [] OTHER                                                       -> 0

\* C2: at the return of a successful enable() that switched the panel on, the
\* calls the panel has received (those of its attach followed by those of
\* this enable) have regulator.enable before every gpio.setValue(asserted),
\* that before every dsi.dcsWrite, and that before every
\* backlight.update(unblank).
C2_EnableOrdersPowerGpioDcsBacklight ==
    EnabledNow =>
        LET h == probeTrace \o trace
        IN  \A i, j \in 1..Len(h) :
                (i < j /\ C2_Rank(h[i]) > 0 /\ C2_Rank(h[j]) > 0)
                    => C2_Rank(h[i]) <= C2_Rank(h[j])

\* the DCS writes of a call sequence, in order
DcsOf(calls) == SelectSeq(calls, LAMBDA c : c.call = "dsi.dcsWrite")

\* C3: an enable() that takes the panel from Disabled to Enabled issues the
\* whole command list itself, after regulator.enable and gpio.setValue and
\* before backlight.update, and ends with the DSI host attach.
C3_EnableRunsScriptThenAttaches ==
    EnabledNow =>
        /\ Len(DcsOf(trace)) = Len(InitScript)
        /\ \A k \in 1..Len(InitScript) :
              /\ DcsOf(trace)[k].arg = InitScript[k].cmd
              /\ DcsOf(trace)[k].data = InitScript[k].data
        /\ \A i \in Where(trace, {"dsi.dcsWrite"}) :
              /\ \A j \in Where(trace, {"regulator.enable", "gpio.setValue"}) : j < i
              /\ \A j \in Where(trace, {"backlight.update"}) : i < j
        /\ trace # <<>> /\ trace[Len(trace)].call = "dsi.attach"

\* call name and argument of every call
CallArgs(calls) == [i \in 1..Len(calls) |-> <<calls[i].call, calls[i].arg>>]

\* C4: disable() on an Enabled panel that has a backlight and a valid enable
\* GPIO issues exactly backlight.update(powerdown), gpio.setValue(deasserted),
\* regulator.disable, in that order, and leaves the panel Disabled.
C4_DisableTrace ==
    (DisabledNow /\ cfg.backlight /\ gpio_is_valid(cfg.enable_gpio)) =>
        /\ Len(trace) = 3
        /\ CallArgs(trace)[1] = <<"backlight.update", FB_BLANK_POWERDOWN>>
        /\ CallArgs(trace)[2] = <<"gpio.setValue", Electrical(0)>>
        /\ CallArgs(trace)[3] = <<"regulator.disable", 0>>
        /\ ~panel.enabled

\* a disable() has run on an Enabled panel with backlight and active-low GPIO
C4_Witness ==
    /\ DisabledNow /\ cfg.backlight /\ gpio_is_valid(cfg.enable_gpio)
    /\ cfg.gpio_flags = OF_GPIO_ACTIVE_LOW
    /\ res.gpio_value = 1 /\ res.bl_power = FB_BLANK_POWERDOWN

\* C5: enable() on an Enabled panel and disable() on a Disabled panel return
\* 0, issue no call at all and leave struct panel_simple as it was.
C5_Idempotent ==
    ((lastOp = "enable" /\ pre.enabled) \/ (lastOp = "disable" /\ ~pre.enabled))
        => (ret = 0 /\ trace = <<>> /\ panel = pre)

\* enable() has been called on a panel that was already Enabled
C5_Witness ==
    lastOp = "enable" /\ pre.enabled /\ panel.enabled /\ res.supply = 1

\* C6: when regulator_enable fails inside enable(), enable() returns that
\* error, the panel stays Disabled, and the call writes neither the enable
\* GPIO nor the backlight power state.
C6_SupplyFailureAbortsEnable ==
    lastOp = "enable" =>
        \A i \in Where(trace, {"regulator.enable"}) :
            trace[i].r < 0 =>
                /\ ret = trace[i].r
                /\ panel = pre /\ ~panel.enabled
                /\ Where(trace, {"gpio.setValue", "gpio.directionOutput",
                                 "backlight.update"}) = {}

\* regulator_enable has failed on a panel that has both a GPIO and a backlight
C6_Witness ==
    /\ lastOp = "enable" /\ ret < 0 /\ ~panel.enabled
    /\ gpio_is_valid(panel.enable_gpio) /\ panel.backlight
    /\ Where(trace, {"regulator.enable"}) # {}

\* the net effect of a call sequence on untouched collaborators
Net(calls) == ApplyAll(ZeroRes, calls)

\* the resource a call acquires or releases
ResourceOf(name) ==
    CASE name \in {"gpio.request", "gpio.free"}                -> "gpio"
      [] name \in {"backlight.get", "backlight.put"}           -> "backlight"
      [] name \in {"ddc.get", "ddc.put"}                       -> "ddc"
      [] name \in {"pipeline.panelAdd", "pipeline.panelRemove"} -> "pipeline"
      [] name \in {"dsi.attach", "dsi.detach"}                 -> "dsi"

AcquireCalls ==
    {"gpio.request", "backlight.get", "ddc.get", "pipeline.panelAdd", "dsi.attach"}

ReleaseCalls ==
    {"gpio.free", "backlight.put", "ddc.put", "pipeline.panelRemove", "dsi.detach"}

\* the resources a call sequence acquired, in acquisition order
Acquired(calls) ==
    LET a == SelectSeq(calls, LAMBDA c : c.call \in AcquireCalls /\ c.r = 0)
    IN  [i \in 1..Len(a) |-> ResourceOf(a[i].call)]

\* the resources a call sequence asked to release, in release order
Released(calls) ==
    LET a == SelectSeq(calls, LAMBDA c : c.call \in ReleaseCalls)
    IN  [i \in 1..Len(a) |-> ResourceOf(a[i].call)]

Reverse(s) == [i \in 1..Len(s) |-> s[Len(s) + 1 - i]]

\* C7: a probe that returns an error has released, in reverse acquisition
\* order, everything it had acquired: GPIO line, backlight reference, DDC
\* reference, panel registration.
C7_FailedAttachLeavesNothing ==
    (lastOp = "probe" /\ ret < 0) =>
        /\ Net(trace).gpio = 0
        /\ Net(trace).backlight = 0
        /\ Net(trace).ddc = 0
        /\ Net(trace).panels = 0
        /\ Released(trace) = Reverse(Acquired(trace))

\* C8 as stated: after probe and remove every resource the probe acquired
\* (DSI host attachment, panel registration, DDC reference, backlight
\* reference, GPIO line) has been released once, in reverse acquisition
\* order, and none is held any more.
C8_AttachDetachBalanced ==
    lastOp = "remove" =>
        /\ Released(trace) = Reverse(Acquired(probeTrace))
        /\ Net(probeTrace \o trace).gpio = 0
        /\ Net(probeTrace \o trace).backlight = 0
        /\ Net(probeTrace \o trace).ddc = 0
        /\ Net(probeTrace \o trace).panels = 0
        /\ Net(probeTrace \o trace).attached = 0

\* C8 as amended: remove asks once for the release of each resource the probe
\* acquired, in reverse acquisition order; GPIO line, backlight reference,
\* DDC reference and panel registration are then no longer held, and the DSI
\* host attachment is no longer held exactly when mipi_dsi_detach succeeded.
C8_AttachDetachBalancedUnlessDetachFails ==
    lastOp = "remove" =>
        /\ Released(trace) = Reverse(Acquired(probeTrace))
        /\ Net(probeTrace \o trace).gpio = 0
        /\ Net(probeTrace \o trace).backlight = 0
        /\ Net(probeTrace \o trace).ddc = 0
        /\ Net(probeTrace \o trace).panels = 0
        /\ Net(probeTrace \o trace).attached =
              (IF trace[1].call = "dsi.detach" /\ trace[1].r = 0 THEN 0 ELSE 1)

\* a remove has released all five resources of a fully equipped panel
C8_Witness ==
    /\ lastOp = "remove"
    /\ Len(Acquired(probeTrace)) = 5
    /\ Len(Released(trace)) = 5
    /\ Net(probeTrace \o trace).attached = 0

DisableCallNames == {"backlight.update", "gpio.setValue", "regulator.disable"}

\* C9 as stated: remove of an Enabled panel runs the disable sequence before
\* it unregisters the panel or releases anything.
C9_DetachDisablesFirst ==
    (lastOp = "remove" /\ pre.enabled) =>
        /\ Where(trace, {"regulator.disable"}) # {}
        /\ \A i \in Where(trace, {"regulator.disable"}) :
              \A j \in Where(trace, ReleaseCalls \cup {"pipeline.panelDetach"}) :
                  i < j

\* C9 as amended: remove of an Enabled panel detaches from the DSI host and
\* takes the panel off the pipeline, then runs the whole disable sequence,
\* and only then drops the DDC and backlight references and frees the GPIO.
C9_DetachUnregistersDisablesReleases ==
    (lastOp = "remove" /\ pre.enabled) =>
        LET unreg == Where(trace, {"dsi.detach", "pipeline.panelDetach",
                                   "pipeline.panelRemove"})
            dis   == Where(trace, DisableCallNames)
            rel   == Where(trace, {"ddc.put", "backlight.put", "gpio.free"})
        IN  /\ Cardinality(unreg) = 3
            /\ \A i \in unreg, j \in dis : i < j
            /\ \A i \in dis, j \in rel : i < j
            /\ Cardinality(Where(trace, {"regulator.disable"})) = 1
            /\ Cardinality(Where(trace, {"backlight.update"})) =
                  (IF cfg.backlight THEN 1 ELSE 0)
            /\ Cardinality(Where(trace, {"gpio.setValue"})) =
                  (IF gpio_is_valid(cfg.enable_gpio) THEN 1 ELSE 0)
            /\ \A i \in Where(trace, {"backlight.update"}) :
                  trace[i].arg = FB_BLANK_POWERDOWN
            /\ \A i \in Where(trace, {"gpio.setValue"}) :
                  trace[i].arg = Electrical(0)
            /\ \A i \in dis : i <= CHOOSE k \in Where(trace, {"regulator.disable"}) : TRUE
            /\ ~panel.enabled

\* an Enabled panel with backlight, DDC bus and GPIO has been removed
C9_Witness ==
    /\ lastOp = "remove" /\ pre.enabled
    /\ pre.backlight /\ pre.ddc /\ gpio_is_valid(pre.enable_gpio)

\* C10: a probe whose backlight or DDC lookup finds no device yet returns
\* -EPROBE_DEFER and holds nothing (the GPIO line, and in the DDC case the
\* backlight reference, have been released); the probe that follows such a
\* deferral returns 0 when none of its calls fails.
C10_DeferredProbeRetries ==
    lastOp = "probe" =>
        /\ (\E i \in Where(trace, {"backlight.get", "ddc.get"}) : trace[i].r < 0)
              => /\ ret = -EPROBE_DEFER
                 /\ ~bound
                 /\ Net(trace).gpio = 0
                 /\ Net(trace).backlight = 0
                 /\ Net(trace).ddc = 0
                 /\ Net(trace).panels = 0
                 /\ Net(trace).attached = 0
                 /\ Cardinality(Where(trace, {"gpio.free"})) =
                        Cardinality(Where(trace, {"gpio.request"}))
                 /\ Cardinality(Where(trace, {"backlight.put"})) =
                        Cardinality({i \in Where(trace, {"backlight.get"}) :
                                        trace[i].r = 0})
        /\ (/\ prevRet = -EPROBE_DEFER
            /\ trace # <<>>
            /\ \A i \in 1..Len(trace) : trace[i].r = 0)
              => (ret = 0 /\ bound)

\* the retry of a probe that was deferred for its DDC bus, after a backlight
\* reference had been taken and a GPIO requested, has succeeded
C10_Witness ==
    /\ lastOp = "probe" /\ prevRet = -EPROBE_DEFER /\ ret = 0 /\ bound
    /\ panel.backlight /\ panel.ddc /\ gpio_is_valid(panel.enable_gpio)
    /\ res.gpio = 1 /\ res.backlight = 1 /\ res.ddc = 1

\* C11: the driver applies the polarity itself.  Active-high line: probe
\* drives 0, enable drives 1, disable drives 0; active-low line: probe 1,
\* enable 0, disable 1.  While the driver is bound the line is therefore
\* logically asserted exactly when the panel is Enabled.
C11_GpioPolarity ==
    LET low == cfg.gpio_flags = OF_GPIO_ACTIVE_LOW
    IN  /\ \A i \in Where(trace, {"gpio.directionOutput"}) :
              trace[i].arg = (IF low THEN 1 ELSE 0)
        /\ lastOp = "enable" =>
              \A i \in Where(trace, {"gpio.setValue"}) :
                  trace[i].arg = (IF low THEN 0 ELSE 1)
        /\ lastOp \in {"disable", "shutdown", "remove"} =>
              \A i \in Where(trace, {"gpio.setValue"}) :
                  trace[i].arg = (IF low THEN 1 ELSE 0)
        /\ (bound /\ gpio_is_valid(cfg.enable_gpio)) =>
              res.gpio_value = (IF panel.enabled = low THEN 0 ELSE 1)

\* an active-low panel has been switched on: the line is electrically low
C11_Witness ==
    /\ EnabledNow /\ cfg.gpio_flags = OF_GPIO_ACTIVE_LOW
    /\ Where(trace, {"gpio.setValue"}) # {}
    /\ res.gpio_value = 0

\* the modes drm_add_edid_modes reported in a call sequence
EdidAdded(calls) ==
    IF Where(calls, {"edid.addModes"}) = {} THEN 0
    ELSE calls[CHOOSE i \in Where(calls, {"edid.addModes"}) : TRUE].arg

\* C12: get_modes never fails; it returns the number of EDID modes added (0
\* without a DDC bus or when the EDID read returns nothing) plus the number
\* of descriptor modes whose copy succeeded, failed copies being skipped;
\* after every call the connector carries the descriptor's physical size.
C12_GetModesCount ==
    lastOp = "get_modes" =>
        /\ ret >= 0
        /\ Cardinality(Where(trace, {"edid.addModes"})) <= 1
        /\ ret = EdidAdded(trace) + CountAll(trace, "mode.probedAdd")
        /\ CountAll(trace, "mode.probedAdd") = CountOk(trace, "mode.duplicate")
        /\ CountAll(trace, "mode.duplicate") =
              dsi_of_match[cfg.compatible].desc.num_modes
        /\ (~cfg.ddc \/ \E i \in Where(trace, {"edid.read"}) : trace[i].r < 0)
              => Where(trace, {"edid.addModes"}) = {}
        /\ CountAll(trace, "connector.width_mm") = 1
        /\ CountAll(trace, "connector.height_mm") = 1
        /\ \A i \in Where(trace, {"connector.width_mm"}) :
              trace[i].arg = dsi_of_match[cfg.compatible].desc.size.width
        /\ \A i \in Where(trace, {"connector.height_mm"}) :
              trace[i].arg = dsi_of_match[cfg.compatible].desc.size.height

\* get_modes has returned 0: the EDID read gave nothing and the copy of the
\* descriptor mode failed
C12_Witness ==
    /\ lastOp = "get_modes" /\ ret = 0 /\ cfg.ddc
    /\ cfg.compatible = "sc20,ili9881c"
    /\ CountAll(trace, "mode.duplicate") = 1
    /\ CountOk(trace, "mode.duplicate") = 0
    /\ \E i \in Where(trace, {"connector.width_mm"}) :
          trace[i].arg = sc20_ili9881c.desc.size.width

\* C13: whichever mipi_dsi_dcs_write statements fail, the probe still issues
\* every statement of the command list in program order, goes on to
\* mipi_dsi_attach, and returns what mipi_dsi_attach returned: the result is
\* the one of a probe in which no write fails.
C13_DcsFailuresIgnored ==
    (lastOp = "probe" /\ Where(trace, {"dsi.dcsWrite"}) # {}) =>
        /\ Len(DcsOf(trace)) = Len(InitScript)
        /\ \A k \in 1..Len(InitScript) :
              DcsOf(trace)[k].arg = InitScript[k].cmd
        /\ trace[Len(trace)].call = "dsi.attach"
        /\ ret = trace[Len(trace)].r
        /\ bound = (ret = 0)

\* every write of the command list has failed and the probe has returned 0
C13_Witness ==
    /\ lastOp = "probe" /\ ret = 0 /\ bound
    /\ Len(DcsOf(trace)) = Len(InitScript)
    /\ \A k \in 1..Len(InitScript) : DcsOf(trace)[k].r < 0

\* C14: every statement of the command list is transmitted as one DCS write
\* that carries the statement's command byte and every byte of the array the
\* statement names, in program order; the first write carries 0x98 0x81 0x03.
C14_StepsCarryWholePayload ==
    (lastOp = "probe" /\ Where(trace, {"dsi.dcsWrite"}) # {}) =>
        /\ Len(DcsOf(trace)) = Len(InitScript)
        /\ \A k \in 1..Len(InitScript) :
              /\ DcsOf(trace)[k].arg = InitScript[k].cmd
              /\ DcsOf(trace)[k].data = InitScript[k].data

\* C15: disable() on an Enabled panel runs every step it has -- the backlight
\* power-down if there is a backlight, the enable line if there is one, then
\* regulator_disable -- whatever the backlight update and regulator_disable
\* return; it returns 0 and leaves the panel Disabled.
C15_DisableRunsToCompletion ==
    DisabledNow =>
        /\ ret = 0 /\ ~panel.enabled
        /\ CountAll(trace, "backlight.update") = (IF cfg.backlight THEN 1 ELSE 0)
        /\ CountAll(trace, "gpio.setValue") =
              (IF gpio_is_valid(cfg.enable_gpio) THEN 1 ELSE 0)
        /\ CountAll(trace, "regulator.disable") = 1
        /\ trace[Len(trace)].call = "regulator.disable"
        /\ \A i \in Where(trace, {"backlight.update"}) :
              \A j \in Where(trace, {"gpio.setValue", "regulator.disable"}) : i < j

\* a disable() in which the backlight update and regulator_disable both failed
C15_Witness ==
    /\ DisabledNow /\ Len(trace) = 3 /\ ~panel.enabled
    /\ trace[1].call = "backlight.update" /\ trace[1].r < 0
    /\ trace[3].call = "regulator.disable" /\ trace[3].r < 0

\* C16: a probe of a node whose compatible string is in no row of
\* dsi_of_match returns -ENODEV without a single call to a collaborator and
\* without writing the DSI device; a compatible string that is in the table
\* is in exactly one row, and a bound panel runs with that row's data.
C16_UnknownCompatibleRejected ==
    lastOp = "probe" =>
        /\ MatchingRows(cfg.compatible) = {} =>
              /\ ret = -ENODEV /\ trace = <<>> /\ ~bound
              /\ res = ZeroRes /\ dsi = NoDsi /\ panel = NoPanel
        /\ MatchingRows(cfg.compatible) # {} =>
              /\ Cardinality(MatchingRows(cfg.compatible)) = 1
              /\ ret # -ENODEV
              /\ bound =>
                    \A i \in MatchingRows(cfg.compatible) :
                        /\ panel.desc = dsi_of_match_table[i].compatible
                        /\ dsi.format = dsi_of_match_table[i].data.format
                        /\ dsi.lanes = dsi_of_match_table[i].data.lanes
                        /\ dsi.mode_flags = dsi_of_match_table[i].data.flags

\* a node that matches no row has been probed, its backlight being ready
C16_Witness ==
    /\ lastOp = "probe" /\ MatchingRows(cfg.compatible) = {}
    /\ ret = -ENODEV /\ backlightReady /\ nProbes = 1

\* C17: shutdown leaves the calls and the struct panel_simple that
\* panel_simple_disable would have left from the same state with the same
\* collaborator outcomes; on a Disabled panel it makes no call at all.
C17_ShutdownIsDisable ==
    lastOp = "shutdown" =>
        /\ \E faults \in OpFaults, e \in CollabErrs :
              LET dis == panel_simple_disable(pre, faults, e)
              IN  trace = dis.calls /\ panel = dis.panel
        /\ ~panel.enabled
        /\ ~pre.enabled => (trace = <<>> /\ panel = pre)
        /\ pre.enabled => trace[Len(trace)].call = "regulator.disable"

\* a shutdown has run the three steps on an Enabled panel
C17_Witness ==
    /\ lastOp = "shutdown" /\ pre.enabled /\ ~panel.enabled
    /\ Len(trace) = 3 /\ res.supply = 0

CallNames(calls) == [i \in 1..Len(calls) |-> calls[i].call]

Opt(present, name) == IF present THEN <<name>> ELSE <<>>

\* C18: without a backlight enable() and disable() make no backlight call,
\* and without a valid enable GPIO no GPIO call; the other steps keep their
\* order, and the call returns 0 (enable: unless regulator_enable failed).
C18_OptionalResourcesSkipped ==
    LET bl == cfg.backlight
        gp == gpio_is_valid(cfg.enable_gpio)
    IN  (lastOp \in {"enable", "disable"} /\ ~(bl /\ gp)) =>
          /\ ~bl => Where(trace, {"backlight.update"}) = {}
          /\ ~gp => Where(trace, {"gpio.setValue", "gpio.directionOutput"}) = {}
          /\ (lastOp = "enable" /\ ~pre.enabled
                /\ \A i \in Where(trace, {"regulator.enable"}) : trace[i].r = 0) =>
                /\ ret = 0 /\ panel.enabled
                /\ CallNames(trace) = <<"regulator.enable">>
                       \o Opt(gp, "gpio.setValue") \o Opt(bl, "backlight.update")
          /\ DisabledNow =>
                /\ ret = 0 /\ ~panel.enabled
                /\ CallNames(trace) = Opt(bl, "backlight.update")
                       \o Opt(gp, "gpio.setValue") \o <<"regulator.disable">>

\* an enable() of a panel with neither backlight nor enable GPIO has succeeded
C18_Witness ==
    /\ lastOp = "enable" /\ ~pre.enabled /\ ret = 0 /\ panel.enabled
    /\ ~cfg.backlight /\ ~gpio_is_valid(cfg.enable_gpio)
    /\ CallNames(trace) = <<"regulator.enable">>

\* C19: the device structure that mipi_dsi_attach receives already has
\* mode_flags, format and lanes equal to those of the matched table row.
C19_DsiFieldsSetBeforeAttach ==
    \A i \in Where(trace, {"dsi.attach"}) :
        /\ trace[i].data = <<DsiOf(dsi_of_match[cfg.compatible])>>
        /\ \A j \in Where(probeTrace, {"dsi.attach"}) :
              probeTrace[j].data = trace[i].data

\* the first probe of a node has reached mipi_dsi_attach, which failed
C19_Witness ==
    /\ lastOp = "probe" /\ nProbes = 1 /\ ret < 0
    /\ trace # <<>> /\ trace[Len(trace)].call = "dsi.attach"
    /\ trace[Len(trace)].data[1].lanes = 4

\* C20: remove returns 0 whatever mipi_dsi_detach returned; the panel is
\* taken off the panel list and left Disabled, and the DDC reference, the
\* backlight reference and the GPIO line that the probe took are given back.
C20_RemoveAlwaysSucceeds ==
    lastOp = "remove" =>
        /\ ret = 0 /\ ~bound /\ ~panel.enabled
        /\ trace[1].call = "dsi.detach" /\ CountAll(trace, "dsi.detach") = 1
        /\ CountOk(trace, "pipeline.panelRemove") = 1
        /\ pre.enabled => CountAll(trace, "regulator.disable") = 1
        /\ CountOk(trace, "ddc.put") = (IF cfg.ddc THEN 1 ELSE 0)
        /\ CountOk(trace, "backlight.put") = (IF cfg.backlight THEN 1 ELSE 0)
        /\ CountOk(trace, "gpio.free") =
              (IF gpio_is_valid(cfg.enable_gpio) THEN 1 ELSE 0)
        /\ LET held == Net(probeTrace \o trace)
           IN  held.panels = 0 /\ held.ddc = 0 /\ held.backlight = 0
                   /\ held.gpio = 0

\* an Enabled panel holding every resource has been removed although
\* mipi_dsi_detach failed
C20_Witness ==
    /\ lastOp = "remove" /\ pre.enabled /\ ret = 0
    /\ trace[1].call = "dsi.detach" /\ trace[1].r < 0
    /\ cfg.ddc /\ cfg.backlight /\ gpio_is_valid(cfg.enable_gpio)
    /\ res.attached = 1 /\ res.gpio = 0

\* C22: the number of regulator_enable calls that succeeded less the number
\* of regulator_disable calls is 0 or 1 in every state, 1 exactly when the
\* enabled flag is set, and 0 once the panel has been removed.
C22_RegulatorBalance ==
    /\ res.balance \in {0, 1}
    /\ res.balance = 1 <=> panel.enabled
    /\ lastOp = "remove" => res.balance = 0

\* an Enabled panel has been removed; its regulator_disable failed, so the
\* regulator still counts an enable while the calls balance
C22_Witness ==
    /\ lastOp = "remove" /\ pre.enabled /\ res.balance = 0
    /\ \E i \in Where(trace, {"regulator.disable"}) : trace[i].r < 0
    /\ res.supply = 1

\* the calls of a sequence that returned a failure, in order
Failed(calls) == SelectSeq(calls, LAMBDA c : c.r < 0)

\* C23: when panel_simple_probe fails (the panel never reaches the panel
\* list) panel_simple_dsi_probe returns panel_simple_probe's error: -ENOMEM
\* when nothing could be allocated, -EPROBE_DEFER when the backlight or the
\* DDC adapter was not found, else the error of the call that failed.  It
\* has then written no field of the DSI device, sent no command and not
\* called mipi_dsi_attach.
C23_BaseProbeFailureStopsDsiProbe ==
    (/\ lastOp = "probe"
     /\ MatchingRows(cfg.compatible) # {}
     /\ CountOk(trace, "pipeline.panelAdd") = 0) =>
        /\ ret < 0 /\ ~bound
        /\ ret = (IF Failed(trace) = <<>> THEN -ENOMEM
                  ELSE IF Failed(trace)[1].call \in {"backlight.get", "ddc.get"}
                  THEN -EPROBE_DEFER
                  ELSE Failed(trace)[1].r)
        /\ Where(trace, {"dsi.dcsWrite", "msleep", "dsi.attach"}) = {}
        /\ dsi \in {NoDsi, DsiOf(dsi_of_match[cfg.compatible])}
        /\ nProbes = 1 => dsi = NoDsi

\* the first probe of a node has failed in drm_panel_add, after the DDC
\* adapter had been taken
C23_Witness ==
    /\ lastOp = "probe" /\ nProbes = 1 /\ cfg.ddc /\ dsi = NoDsi
    /\ \E i \in Where(trace, {"pipeline.panelAdd"}) : trace[i].r < 0 /\ ret = trace[i].r
    /\ CountAll(trace, "ddc.put") = 1

\* the contexts that are inside an entry point
Inside == {c \in Contexts : running[c].op # "idle"}

\* C21: at most one context is inside an entry point of the panel at a time;
\* while it is inside, the calls made since it entered are its own and the
\* enabled flag is still as the handler found it when it tested it.
C21_EntryPointsSerialized ==
    /\ Cardinality(Inside) <= 1
    /\ \A c \in Inside :
          /\ mutex = c
          /\ trace = running[c].done
          /\ panel.enabled = running[c].seen

\* one context is between the calls of an enable that found the panel
\* Disabled, after a disable has run to its end
C21_Witness ==
    /\ lastOp = "disable" /\ res.balance = 1 /\ ~panel.enabled
    /\ \E c \in Inside :
          /\ running[c].op = "enable" /\ ~running[c].seen
          /\ running[c].done # <<>> /\ running[c].todo # <<>>

====
